---- MODULE Spec2Model ----
(***************************************************************************)
(* convert_requirements.py: requirements.txt (with nested -r includes) to  *)
(* pyproject.toml.  Strings are sequences of one-character strings, so     *)
(* that strip, split, startswith, the os.path functions, the regular       *)
(* expression and the f-strings are computed character by character.       *)
(***************************************************************************)
EXTENDS Integers, Sequences, FiniteSets, TLC

VARIABLES
    scen,           \* the environment of the run: working directory, argv, files on disk
    pc,             \* position of main()
    files,          \* content of the files on disk, as far as the run has read it
    eof,            \* the files whose content is known to the end
    budget,         \* lines of file content not yet read
    parsed_files,   \* parsed_files (line 32)
    stack,          \* activation records of parse_requirements, innermost last
    reqs,           \* reqs (line 134)
    ri,             \* number of entries of reqs the loop of line 137 has consumed
    dependencies,   \* dependencies (line 136), an OrderedDict as a sequence of items
    toml,           \* toml (line 141), as a sequence of lines
    opened,         \* history: the paths passed to open() (line 47), in order
    opener,         \* history: the include directive <<file, line number>> that opened a path
    ret,            \* history: the value returned by the call that opened a path
    reqsrc,         \* history: <<file, line number>> of each entry of reqs
    line,           \* argument of a stand-alone call of parse_requirement_line
    parsed          \* its return value

vars == <<scen, pc, files, eof, budget, parsed_files, stack, reqs, ri,
          dependencies, toml, opened, opener, ret, reqsrc, line, parsed>>

\* ------------------------------------------------------------------ bounds
MaxTotalLines == 5      \* lines of file content one run may read
MaxLineLen == 4         \* length of the enumerated requirement lines
MaxDepth == 6           \* nesting of parse_requirements calls the model follows

\* ------------------------------------------------------- Python primitives
\* an optional string: None, or Some(s) for the string s
None == <<>>
Some(s) == <<s>>

Whitespace == {" ", "\t", "\n"}

Lower == {"a","b","c","d","e","f","g","h","i","j","k","l","m",
          "n","o","p","q","r","s","t","u","v","w","x","y","z"}
Upper == {"A","B","C","D","E","F","G","H","I","J","K","L","M",
          "N","O","P","Q","R","S","T","U","V","W","X","Y","Z"}
Digit == {"0","1","2","3","4","5","6","7","8","9"}

SetMin(S) == CHOOSE x \in S : \A y \in S : x <= y
SetMax(S) == CHOOSE x \in S : \A y \in S : x >= y

\* Below, CHOOSE r \in {F(v) : v \in {x}} : TRUE is F(x) with the argument
\* evaluated once, however often F uses it.

\* str.strip()
Stripped(s) ==
    LET keep == {i \in 1..Len(s) : s[i] \notin Whitespace}
    IN  IF keep = {} THEN <<>> ELSE SubSeq(s, SetMin(keep), SetMax(keep))

strip(s) == CHOOSE r \in {Stripped(v) : v \in {s}} : TRUE

\* str.startswith(prefix)
startswith(s, prefix) ==
    /\ Len(s) >= Len(prefix)
    /\ SubSeq(s, 1, Len(prefix)) = prefix

\* str.split(sep) for a one-character separator class: every field, empty ones too
Fields(s, seps) ==
    LET at == {i \in 1..Len(s) : s[i] \in seps}
        \* the position of the k-th separator; 0 and Len(s) + 1 stand for the two ends
        Sep(k) == IF k = 0 THEN 0
                  ELSE IF k > Cardinality(at) THEN Len(s) + 1
                  ELSE CHOOSE i \in at : Cardinality({j \in at : j <= i}) = k
    IN  [k \in 1..(Cardinality(at) + 1) |-> SubSeq(s, Sep(k - 1) + 1, Sep(k) - 1)]

SplitBy(s, seps) == CHOOSE r \in {Fields(v, seps) : v \in {s}} : TRUE

\* str.split(): fields separated by runs of whitespace, no empty field
split(s) == SelectSeq(SplitBy(s, Whitespace), LAMBDA w : w /= <<>>)

\* "/".join(comps)
RECURSIVE JoinSlash(_)
JoinRest(comps) ==
    IF comps = <<>> THEN <<>>
    ELSE IF Len(comps) = 1 THEN comps[1]
    ELSE comps[1] \o <<"/">> \o JoinSlash(Tail(comps))

JoinSlash(comps) == CHOOSE r \in {JoinRest(v) : v \in {comps}} : TRUE

\* posixpath.normpath on an absolute path: drop "" and ".", resolve ".."
\* state is <<components still to read, components kept>>
RECURSIVE NormComps(_)
NormStep(st) ==
    LET comps == st[1]  acc == st[2] IN
    IF comps = <<>> THEN acc
    ELSE IF Head(comps) = <<>> \/ Head(comps) = <<".">>
         THEN NormComps(<<Tail(comps), acc>>)
    ELSE IF Head(comps) = <<".", ".">>
         THEN NormComps(<<Tail(comps),
                          IF acc = <<>> THEN acc ELSE SubSeq(acc, 1, Len(acc) - 1)>>)
    ELSE NormComps(<<Tail(comps), Append(acc, Head(comps))>>)

NormComps(st) == CHOOSE r \in {NormStep(v) : v \in {st}} : TRUE

normpath(p) == <<"/">> \o JoinSlash(NormComps(<<SplitBy(p, {"/"}), <<>>>>))

\* posixpath.join(a, b)
Joined(ab) ==
    LET a == ab[1]  b == ab[2] IN
    IF startswith(b, <<"/">>) THEN b
    ELSE IF a = <<>> \/ a[Len(a)] = "/" THEN a \o b
    ELSE a \o <<"/">> \o b

join(a, b) == CHOOSE r \in {Joined(v) : v \in {<<a, b>>}} : TRUE

\* posixpath.dirname(p)
DirnameOf(p) ==
    LET at == {i \in 1..Len(p) : p[i] = "/"}
        head == IF at = {} THEN <<>> ELSE SubSeq(p, 1, SetMax(at))
        keep == {i \in 1..Len(head) : head[i] /= "/"}
    IN  IF keep = {} THEN head ELSE SubSeq(head, 1, SetMax(keep))

dirname(p) == CHOOSE r \in {DirnameOf(v) : v \in {p}} : TRUE

\* --------------------------------------------------------- the environment
\* Each run takes place in one environment.  File content is an input: a
\* file is read line by line and each line is drawn when it is first read.
Scenarios == {"graph", "diamond", "dirs", "errors", "main", "example", "oneline", "nofile"}

\* os.getcwd(), which os.path.abspath prepends to a relative path
Cwd == <<"/", "w">>

\* args.input
Input(s) ==
    CASE s = "dirs"    -> <<"s", "/", "a">>
      [] s = "main"    -> <<"r", ".", "t", "x", "t">>
      [] s = "example" -> <<"d", "/", "r", ".", "t", "x", "t">>
      [] OTHER         -> <<"a">>

\* the paths for which os.path.exists is true
Exists(s) ==
    CASE s \in {"graph", "diamond"} -> {<<"/", "w", "/", "a">>, <<"/", "w", "/", "b">>, <<"/", "w", "/", "c">>, <<"/", "w", "/", "d">>}
      [] s = "dirs"    -> {<<"/", "w", "/", "s", "/", "a">>, <<"/", "w", "/", "s", "/", "b">>, <<"/", "w", "/", "b">>}
      [] s = "errors"  -> {<<"/", "w", "/", "a">>, <<"/", "w", "/", "b">>}
      [] s = "main"    -> {<<"/", "w", "/", "r", ".", "t", "x", "t">>, <<"/", "w", "/", "s", "u", "b", ".", "t", "x", "t">>}
      [] s = "example" -> {<<"/", "w", "/", "d", "/", "r", ".", "t", "x", "t">>, <<"/", "w", "/", "d", "/", "s", "u", "b", ".", "t", "x", "t">>, <<"/", "w", "/", "s", "u", "b", ".", "t", "x", "t">>}
      [] s = "oneline" -> {<<"/", "w", "/", "a">>}
      [] OTHER         -> {}

Alphabet == {"a", "r", "-", "[", "]", ",", " ", "="}

BoundedLines == UNION {[1..n -> Alphabet] : n \in 0..MaxLineLen}

\* the lines a file of the environment may hold (without the line terminator)
Pool(s) ==
    CASE s = "graph"   -> {<<"-", "r", " ", "a">>, <<"-", "r", " ", "b">>, <<"-", "r", " ", "c">>, <<"-", "r", " ", "d">>, <<"x">>}
      [] s = "diamond" -> {<<"-", "r", " ", "a">>, <<"-", "r", " ", "b">>, <<"-", "r", " ", "c">>, <<"-", "r", " ", "d">>}
      [] s = "dirs"    -> {<<"-", "r", " ", "b">>, <<"-", "r", " ", ".", ".", "/", "b">>, <<"-", "r", " ", "s", "/", "b">>, <<"-", "r", " ", ".", "/", "a">>, <<"y", "=", "=", "1">>}
      [] s = "errors"  -> {<<"-", "r", " ", "z", "z">>, <<"-", "r">>, <<"-", "r", " ", "b", " ", "c">>, <<" ", "-", "-", "r", "e", "q", "u", "i", "r", "e", "m", "e", "n", "t", "\t", "b", " ">>, <<"-", "-", "r", "e", "q", "u", "i", "r", "e", "m", "e", "n", "t">>,
                           <<"#", " ", "c">>, <<>>, <<" ", "a", "=", "=", "1", " ">>, <<"-", "r", "b">>}
      [] s = "main"    -> {<<"a", "=", "=", "1", ".", "0">>, <<"b", "=", "=", "2", ".", "0">>, <<"a", "=", "=", "3", ".", "0">>, <<"b">>, <<"=", "1">>, <<"-", "r", " ", "s", "u", "b", ".", "t", "x", "t">>}
      [] s = "oneline" -> BoundedLines
      [] OTHER         -> {}

\* the number of lines a run may read beyond the content fixed in advance
Budget(s) ==
    CASE s = "graph"   -> MaxTotalLines - 1
      [] s = "diamond" -> MaxTotalLines - 1
      [] s = "dirs"    -> MaxTotalLines - 2
      [] s = "errors"  -> MaxTotalLines - 2
      [] s = "main"    -> MaxTotalLines - 2
      [] s = "oneline" -> 1
      [] OTHER         -> 0

\* file content fixed in advance
Preset(s) ==
    CASE s = "example" ->
            (<<"/", "w", "/", "d", "/", "r", ".", "t", "x", "t">>   :> <<<<"a", "=", "=", "1", ".", "0">>, <<"-", "r", " ", "s", "u", "b", ".", "t", "x", "t">>>>)
         @@ (<<"/", "w", "/", "d", "/", "s", "u", "b", ".", "t", "x", "t">> :> <<<<"b", "=", "=", "2", ".", "0">>, <<"a", "=", "=", "3", ".", "0">>>>)
         @@ (<<"/", "w", "/", "s", "u", "b", ".", "t", "x", "t">>   :> <<<<"c", "=", "=", "9", ".", "0">>>>)
      [] s = "diamond" -> (<<"/", "w", "/", "d">> :> <<<<"x">>>>)
      [] OTHER -> <<>>

\* os.path.abspath(path)
AbsoluteOf(path) ==
    normpath(IF startswith(path, <<"/">>) THEN path ELSE Cwd \o <<"/">> \o path)

abspath(path) == CHOOSE r \in {AbsoluteOf(v) : v \in {path}} : TRUE

\* line 57 without the directory of the including file
NestedPathFromCwd(absolute_path, nested_req) == nested_req

\* line 57: the path an include directive names, from the including file
NestedPath(absolute_path, nested_req) == join(dirname(absolute_path), nested_req)

\* line 50
IsBlankOrComment(l) == l = <<>> \/ startswith(l, <<"#">>)

\* line 52
IsDirective(l) == startswith(l, <<"-", "r">>) \/ startswith(l, <<"-", "-", "r", "e", "q", "u", "i", "r", "e", "m", "e", "n", "t">>)

\* line 55 with >= for ==
WellFormedAtLeastOne(parts) == Len(parts) >= 2

\* line 55
WellFormed(parts) == Len(parts) = 2

\* ------------------------------------------------------------ Line Parser
IdChars == Lower \cup Upper \cup Digit \cup {"_", "-", "."}
ExtrasChars == IdChars \cup {","}

AllIn(s, a, b, C) == \A n \in a..b : s[n] \in C

\* the pattern of line 84 without its extras group
MatchesOfWithoutExtras(l) ==
    {t \in (1..Len(l)) \X (1..Len(l)) \X (1..Len(l)) \X ({Len(l) - 1, Len(l)} \cap 1..Len(l)) :
        /\ AllIn(l, 1, t[1], IdChars)
        /\ t[2] = t[1]
        /\ t[3] >= t[2]
        /\ AllIn(l, t[2] + 1, t[3], Whitespace)
        /\ t[4] >= t[3]
        /\ \A n \in (t[3] + 1)..t[4] : l[n] /= "\n"
        /\ t[4] = Len(l) \/ (t[4] = Len(l) - 1 /\ l[Len(l)] = "\n")}

\* The ways the pattern of line 84 matches l, each as <<i, j, k, m>>:
\*   1..i    [A-Za-z0-9_\-\.]+
\*   i+1..j  (?:\[[A-Za-z0-9_,\-\.]+\])?    (j = i when the group is skipped)
\*   j+1..k  \s*
\*   k+1..m  (.*)  then $, at the end or before a final line terminator
MatchesOf(l) ==
    {t \in (1..Len(l)) \X (1..Len(l)) \X (1..Len(l)) \X ({Len(l) - 1, Len(l)} \cap 1..Len(l)) :
        LET i == t[1]  j == t[2]  k == t[3]  m == t[4] IN
        /\ AllIn(l, 1, i, IdChars)
        /\ \/ j = i
           \/ /\ j >= i + 3
              /\ l[i + 1] = "["
              /\ l[j] = "]"
              /\ AllIn(l, i + 2, j - 1, ExtrasChars)
        /\ k >= j
        /\ AllIn(l, j + 1, k, Whitespace)
        /\ m >= k
        /\ \A n \in (k + 1)..m : l[n] /= "\n"
        /\ m = Len(l) \/ (m = Len(l) - 1 /\ l[Len(l)] = "\n")}

\* the order in which the backtracking matcher tries them: every quantifier is greedy
TriedBefore(t, u) ==
    \/ t[1] > u[1]
    \/ t[1] = u[1] /\ t[2] > u[2]
    \/ t[1] = u[1] /\ t[2] = u[2] /\ t[3] > u[3]
    \/ t[1] = u[1] /\ t[2] = u[2] /\ t[3] = u[3] /\ t[4] >= u[4]

\* lines 85-87 returning an empty package for a line that does not match
parse_requirement_line_NoFallback(l) ==
    LET M == MatchesOf(l) IN
    IF M = {} THEN <<<<>>, None>>
    ELSE LET t == CHOOSE t \in M : \A u \in M : TriedBefore(t, u)
             version == SubSeq(l, t[3] + 1, t[4])
         IN  <<SubSeq(l, 1, t[2]), IF version /= <<>> THEN Some(strip(version)) ELSE None>>

\* lines 84-92
parse_requirement_line(l) ==
    LET M == MatchesOf(l) IN
    IF M = {} THEN <<l, None>>
    ELSE LET t == CHOOSE t \in M : \A u \in M : TriedBefore(t, u)
             package == SubSeq(l, 1, t[2])
             version == SubSeq(l, t[3] + 1, t[4])
         IN  <<package, IF version /= <<>> THEN Some(strip(version)) ELSE None>>

\* ------------------------------------------------------ Manifest Generator
\* lines 104-112
Header ==
    << <<"[", "t", "o", "o", "l", ".", "p", "o", "e", "t", "r", "y", "]">>,
       <<"n", "a", "m", "e", " ", "=", " ", "\"", "y", "o", "u", "r", "-", "p", "r", "o", "j", "e", "c", "t", "-", "n", "a", "m", "e", "\"">>,
       <<"v", "e", "r", "s", "i", "o", "n", " ", "=", " ", "\"", "0", ".", "1", ".", "0", "\"">>,
       <<"d", "e", "s", "c", "r", "i", "p", "t", "i", "o", "n", " ", "=", " ", "\"", "A", " ", "s", "h", "o", "r", "t", " ", "d", "e", "s", "c", "r", "i", "p", "t", "i", "o", "n", " ", "o", "f", " ", "y", "o", "u", "r", " ", "p", "r", "o", "j", "e", "c", "t", ".", "\"">>,
       <<"a", "u", "t", "h", "o", "r", "s", " ", "=", " ", "[", "\"", "Y", "o", "u", "r", " ", "N", "a", "m", "e", " ", "<", "y", "o", "u", "@", "e", "x", "a", "m", "p", "l", "e", ".", "c", "o", "m", ">", "\"", "]">>,
       <<>>,
       <<"[", "t", "o", "o", "l", ".", "p", "o", "e", "t", "r", "y", ".", "d", "e", "p", "e", "n", "d", "e", "n", "c", "i", "e", "s", "]">>,
       <<"p", "y", "t", "h", "o", "n", " ", "=", " ", "\"", "^", "3", ".", "8", "\"">> >>

\* lines 120-125
Trailer ==
    << <<>>,
       <<>>,
       <<"[", "b", "u", "i", "l", "d", "-", "s", "y", "s", "t", "e", "m", "]">>,
       <<"r", "e", "q", "u", "i", "r", "e", "s", " ", "=", " ", "[", "\"", "p", "o", "e", "t", "r", "y", "-", "c", "o", "r", "e", ">", "=", "1", ".", "0", ".", "0", "\"", "]">>,
       <<"b", "u", "i", "l", "d", "-", "b", "a", "c", "k", "e", "n", "d", " ", "=", " ", "\"", "p", "o", "e", "t", "r", "y", ".", "c", "o", "r", "e", ".", "m", "a", "s", "o", "n", "r", "y", ".", "a", "p", "i", "\"">> >>

\* line 115: the truth value of ver
Truthy(ver) == ver /= None /\ ver[1] /= <<>>

\* lines 115-118 with the wildcard in both branches
DependencyLineAlwaysWildcard(item) == item[1] \o <<" ", "=", " ", "\"", "*", "\"">>

\* lines 115-118
DependencyLine(item) ==
    IF Truthy(item[2])
    THEN item[1] \o <<" ", "=", " ", "\"">> \o item[2][1] \o <<"\"">>
    ELSE item[1] \o <<" ", "=", " ", "\"", "*", "\"">>

\* lines 114-118 writing only the entries that have a constraint
generate_pyproject_toml_ConstrainedOnly(deps) ==
    Header
      \o [n \in 1..Len(SelectSeq(deps, LAMBDA item : Truthy(item[2]))) |->
             DependencyLine(SelectSeq(deps, LAMBDA item : Truthy(item[2]))[n])]
      \o Trailer

\* lines 104-126
generate_pyproject_toml(deps) ==
    Header \o [n \in 1..Len(deps) |-> DependencyLine(deps[n])] \o Trailer

\* line 139 on a map that moves an overwritten key to the end
SetItemMoveToEnd(deps, pkg, ver) ==
    Append(SelectSeq(deps, LAMBDA item : item[1] /= pkg), <<pkg, ver>>)

\* line 139: dependencies[pkg] = ver on an OrderedDict
SetItem(deps, pkg, ver) ==
    IF \E n \in 1..Len(deps) : deps[n][1] = pkg
    THEN [n \in 1..Len(deps) |-> IF deps[n][1] = pkg THEN <<pkg, ver>> ELSE deps[n]]
    ELSE Append(deps, <<pkg, ver>>)

\* --------------------------------------------------------- Include Resolver
\* line 37
AlreadyParsed(absolute_path, pf) == absolute_path \in pf

\* line 41
PathExists(s, absolute_path) == absolute_path \in Exists(s)

\* line 45 left out: the path is never marked
MarkParsedNever(pf, absolute_path) == pf

\* line 45
MarkParsed(pf, absolute_path) == pf \cup {absolute_path}

\* lines 37-39 left out: only a missing file ends the call at once
ReturnsAtOnceIfMissing(s, absolute_path, pf) == ~PathExists(s, absolute_path)

\* lines 37-43: the call returns the empty list without opening the file
ReturnsAtOnce(s, absolute_path, pf) ==
    AlreadyParsed(absolute_path, pf) \/ ~PathExists(s, absolute_path)

\* line 45 moved before line 41: a missing path is marked too
VisitedBeforeExistenceCheck(s, pf, absolute_path) ==
    IF AlreadyParsed(absolute_path, pf) THEN pf ELSE MarkParsed(pf, absolute_path)

\* lines 37-45: parsed_files when the call has passed its two checks or returned
VisitedAfterCall(s, pf, absolute_path) ==
    IF ReturnsAtOnce(s, absolute_path, pf) THEN pf ELSE MarkParsed(pf, absolute_path)

\* lines 34, 47: the activation record of a call that opens its file
NewFrame(absolute_path) ==
    [path |-> absolute_path, pos |-> 0, requirements |-> <<>>, src |-> <<>>]

Top == stack[Len(stack)]

ReplaceTop(f) == [stack EXCEPT ![Len(stack)] = f]

\* line 48: the lines the iteration over the file can yield next
NextLines(f) ==
    IF f.pos < Len(files[f.path]) THEN {files[f.path][f.pos + 1]}
    ELSE IF f.path \notin eof /\ budget > 0 THEN Pool(scen)
    ELSE {}

\* line 48: the file yields raw to the innermost call
Fetch(raw) ==
    /\ IF Top.pos < Len(files[Top.path])
       THEN UNCHANGED <<files, budget>>
       ELSE /\ files' = [files EXCEPT ![Top.path] = Append(@, raw)]
            /\ budget' = budget - 1
    /\ UNCHANGED <<scen, eof, reqs, ri, dependencies, toml, ret, reqsrc, line, parsed>>

Advanced(f) == [f EXCEPT !.pos = @ + 1]

\* lines 31-45, 134: main calls parse_requirements(args.input)
Start ==
    /\ pc = "start"
    /\ LET absolute_path == abspath(Input(scen)) IN
       IF ReturnsAtOnce(scen, absolute_path, parsed_files)
       THEN /\ pc' = "loop"
            /\ parsed_files' = VisitedAfterCall(scen, parsed_files, absolute_path)
            /\ UNCHANGED <<stack, opened>>
       ELSE /\ pc' = "resolve"
            /\ parsed_files' = VisitedAfterCall(scen, parsed_files, absolute_path)
            /\ stack' = <<NewFrame(absolute_path)>>
            /\ opened' = Append(opened, absolute_path)
    /\ UNCHANGED <<scen, files, eof, budget, reqs, ri, dependencies, toml,
                   opener, ret, reqsrc, line, parsed>>

\* lines 48-51: an empty line or a comment
SkipLine ==
    /\ pc = "resolve"
    /\ \E raw \in NextLines(Top) :
           /\ Fetch(raw)
           /\ IsBlankOrComment(strip(raw))
           /\ stack' = ReplaceTop(Advanced(Top))
           /\ UNCHANGED <<pc, parsed_files, opened, opener>>

\* lines 52-58, 31-47: an include directive whose file is opened
Include ==
    /\ pc = "resolve"
    /\ \E raw \in NextLines(Top) :
           /\ Fetch(raw)
           /\ ~IsBlankOrComment(strip(raw))
           /\ IsDirective(strip(raw))
           /\ WellFormed(split(strip(raw)))
           /\ LET absolute_path == abspath(NestedPath(Top.path, split(strip(raw))[2])) IN
              /\ ~ReturnsAtOnce(scen, absolute_path, parsed_files)
              /\ Len(stack) < MaxDepth
              /\ parsed_files' = VisitedAfterCall(scen, parsed_files, absolute_path)
              /\ stack' = Append(ReplaceTop(Advanced(Top)), NewFrame(absolute_path))
              /\ opened' = Append(opened, absolute_path)
              /\ opener' = opener @@ (absolute_path :> <<Top.path, Top.pos + 1>>)
           /\ UNCHANGED pc

\* lines 52-58, 31-43: an include directive whose call returns the empty list at once
IncludeNothing ==
    /\ pc = "resolve"
    /\ \E raw \in NextLines(Top) :
           /\ Fetch(raw)
           /\ ~IsBlankOrComment(strip(raw))
           /\ IsDirective(strip(raw))
           /\ WellFormed(split(strip(raw)))
           /\ LET absolute_path == abspath(NestedPath(Top.path, split(strip(raw))[2])) IN
              /\ ReturnsAtOnce(scen, absolute_path, parsed_files)
              /\ parsed_files' = VisitedAfterCall(scen, parsed_files, absolute_path)
           /\ stack' = ReplaceTop(Advanced(Top))
           /\ UNCHANGED <<pc, opened, opener>>

\* lines 52-55, 59-60: an include directive with a wrong number of arguments
Malformed ==
    /\ pc = "resolve"
    /\ \E raw \in NextLines(Top) :
           /\ Fetch(raw)
           /\ ~IsBlankOrComment(strip(raw))
           /\ IsDirective(strip(raw))
           /\ ~WellFormed(split(strip(raw)))
           /\ stack' = ReplaceTop(Advanced(Top))
           /\ UNCHANGED <<pc, parsed_files, opened, opener>>

\* lines 61-62: a requirement line
Requirement ==
    /\ pc = "resolve"
    /\ \E raw \in NextLines(Top) :
           /\ Fetch(raw)
           /\ ~IsBlankOrComment(strip(raw))
           /\ ~IsDirective(strip(raw))
           /\ stack' = ReplaceTop([Advanced(Top) EXCEPT
                                       !.requirements = Append(@, strip(raw)),
                                       !.src = Append(@, <<Top.path, Top.pos + 1>>)])
           /\ UNCHANGED <<pc, parsed_files, opened, opener>>

\* lines 48, 64, 58: the file is exhausted; the call returns and the caller extends its list
Return ==
    /\ pc = "resolve"
    /\ Top.pos = Len(files[Top.path])
    /\ eof' = eof \cup {Top.path}
    /\ ret' = ret @@ (Top.path :> Top.requirements)
    /\ IF Len(stack) = 1
       THEN /\ reqs' = Top.requirements
            /\ reqsrc' = Top.src
            /\ stack' = <<>>
            /\ pc' = "loop"
       ELSE /\ stack' = [n \in 1..(Len(stack) - 1) |->
                            IF n = Len(stack) - 1
                            THEN [stack[n] EXCEPT !.requirements = @ \o Top.requirements,
                                                  !.src = @ \o Top.src]
                            ELSE stack[n]]
            /\ UNCHANGED <<reqs, reqsrc, pc>>
    /\ UNCHANGED <<scen, files, budget, parsed_files, ri, dependencies, toml,
                   opened, opener, line, parsed>>

\* ------------------------------------------------------------------- main
\* lines 137-139: one iteration of the loop over reqs
StoreDependency ==
    /\ pc = "loop"
    /\ ri < Len(reqs)
    /\ LET r == parse_requirement_line(reqs[ri + 1]) IN
       dependencies' = SetItem(dependencies, r[1], r[2])
    /\ ri' = ri + 1
    /\ UNCHANGED <<scen, pc, files, eof, budget, parsed_files, stack, reqs, toml,
                   opened, opener, ret, reqsrc, line, parsed>>

\* lines 141-146: the loop is over; the manifest is generated and written
Generate ==
    /\ pc = "loop"
    /\ ri = Len(reqs)
    /\ toml' = generate_pyproject_toml(dependencies)
    /\ pc' = "done"
    /\ UNCHANGED <<scen, files, eof, budget, parsed_files, stack, reqs, ri, dependencies,
                   opened, opener, ret, reqsrc, line, parsed>>

Init ==
    /\ scen \in Scenarios
    /\ pc = "start"
    /\ files = [p \in Exists(scen) |->
                   IF p \in DOMAIN Preset(scen) THEN Preset(scen)[p] ELSE <<>>]
    /\ eof = DOMAIN Preset(scen)
    /\ budget = Budget(scen)
    /\ parsed_files = {}
    /\ stack = <<>>
    /\ reqs = <<>>
    /\ ri = 0
    /\ dependencies = <<>>
    /\ toml = <<>>
    /\ opened = <<>>
    /\ opener = <<>>
    /\ ret = <<>>
    /\ reqsrc = <<>>
    /\ line = <<>>
    /\ parsed = <<>>

Next ==
    \/ Start
    \/ SkipLine
    \/ Include
    \/ IncludeNothing
    \/ Malformed
    \/ Requirement
    \/ Return
    \/ StoreDependency
    \/ Generate

Spec == Init /\ [][Next]_vars

\* The program is sequential and runs every enabled step.  The runs over
\* several files: the single-line environment adds nothing to the include graphs.
InitFair == Init /\ scen /= "oneline"

FairSpec == InitFair /\ [][Next]_vars /\ WF_vars(Next)

\* ------------------------------------- parse_requirement_line on its own
ExampleLines ==
    {<<"f", "o", "o", "=", "=", "1", ".", "2", ".", "3">>, <<"f", "o", "o">>, <<"f", "o", "o", "[", "e", "x", "t", "r", "a", "1", ",", "e", "x", "t", "r", "a", "2", "]", ">", "=", "1", ".", "0", ",", "<", "2", ".", "0">>, <<"f", "o", "o", " ", ">", "=", " ", "1", ".", "0", " ">>, <<"F", "o", "o", "_", "1", ".", "b", "-", "c", "[", "a", ",", "b", "]", " ", "\t", "=", "=", "2">>,
     <<"f", "o", "o", "[", "]">>, <<"f", "o", "o", "[", "a", " ", "b", "]", "=", "=", "1">>, <<"[", "f", "o", "o", "]">>, <<" ", "f", "o", "o">>, <<>>}

ParseInputs == BoundedLines \cup ExampleLines

InitParse ==
    /\ scen = "nofile"
    /\ pc = "call"
    /\ files = <<>>
    /\ eof = {}
    /\ budget = 0
    /\ parsed_files = {}
    /\ stack = <<>>
    /\ reqs = <<>>
    /\ ri = 0
    /\ dependencies = <<>>
    /\ toml = <<>>
    /\ opened = <<>>
    /\ opener = <<>>
    /\ ret = <<>>
    /\ reqsrc = <<>>
    /\ line \in ParseInputs
    /\ parsed = <<>>

\* lines 66-92: one call
ParseLine ==
    /\ pc = "call"
    /\ parsed' = parse_requirement_line(line)
    /\ pc' = "returned"
    /\ UNCHANGED <<scen, files, eof, budget, parsed_files, stack, reqs, ri, dependencies,
                   toml, opened, opener, ret, reqsrc, line>>

NextParse == ParseLine

SpecParse == InitParse /\ [][NextParse]_vars

\* ============================================================== properties
Resolved == pc \in {"loop", "done"}

NoDuplicates(q) == \A m, n \in 1..Len(q) : m /= n => q[m] /= q[n]

LinesOf(p) == {files[p][n] : n \in 1..Len(files[p])}

\* the file an include directive l of file F names: the argument, taken from F's directory
DirectiveTarget(F, l) ==
    LET arg == split(l)[2] IN
    normpath(IF arg[1] = "/" THEN arg ELSE dirname(F) \o <<"/">> \o arg)

IsRequirementLine(l) == ~IsBlankOrComment(l) /\ ~IsDirective(l)

\* the innermost call has consumed one more line of its file and is still active
ReadStep ==
    /\ pc = "resolve"
    /\ Len(stack') >= Len(stack)
    /\ stack'[Len(stack)].pos = Top.pos + 1

\* the line it consumed, stripped
LineRead == strip(files'[Top.path][Top.pos + 1])

\* the step did what skipping the line does: nothing but advance in the same file
OnlyAdvanced ==
    /\ stack' = ReplaceTop(Advanced(Top))
    /\ parsed_files' = parsed_files
    /\ opened' = opened
    /\ pc' = pc

\* ---- C1
\* C1: whatever the include graph of the files (self-includes and mutual
\* includes too), the top-level call of parse_requirements terminates (main
\* runs to its end), and no canonical path is passed to open() twice.
C1_TerminatesOpeningEachFileOnce ==
    /\ [](NoDuplicates([n \in 1..Len(opened) |-> normpath(opened[n])]))
    /\ <>(pc = "done")

\* a run over two files that include each other (and a includes itself) has ended
C1_Witness ==
    /\ scen = "graph"
    /\ pc = "done"
    /\ {<<"-", "r", " ", "a">>, <<"-", "r", " ", "b">>} \subseteq LinesOf(<<"/", "w", "/", "a">>)
    /\ <<"-", "r", " ", "a">> \in LinesOf(<<"/", "w", "/", "b">>)
    /\ Len(opened) = 2

\* ---- C2
\* the stripped lines of file p that are neither empty nor comments, in order
ContentLines(p) ==
    SelectSeq([n \in 1..Len(files[p]) |-> strip(files[p][n])],
              LAMBDA l : ~IsBlankOrComment(l))

\* the packages of the parsed lines q, each at its first occurrence
FirstOccurrences(q) ==
    LET first == {n \in 1..Len(q) : \A m \in 1..(n - 1) : q[m][1] /= q[n][1]}
        F[n \in 0..Len(q)] ==
            IF n = 0 THEN <<>>
            ELSE IF n \in first THEN Append(F[n - 1], q[n][1]) ELSE F[n - 1]
    IN  F[Len(q)]

\* the constraint of the last occurrence of pkg among the parsed lines q
LastConstraint(q, pkg) == q[SetMax({n \in 1..Len(q) : q[n][1] = pkg})][2]

\* C2: when the input file holds no include directive, the mapping main has
\* built lists the packages in the order of their first occurrence among the
\* input lines, each with the constraint of its last occurrence.
C2_FirstOccurrenceOrderLastWriteWins ==
    LET input == abspath(Input(scen)) IN
    (/\ pc = "done"
     /\ input \in Exists(scen)
     /\ \A l \in LinesOf(input) : ~IsDirective(strip(l)))
    => LET q == [n \in 1..Len(ContentLines(input)) |->
                    parse_requirement_line(ContentLines(input)[n])]
           order == FirstOccurrences(q)
       IN  dependencies = [n \in 1..Len(order) |-> <<order[n], LastConstraint(q, order[n])>>]

\* a==1.0, b==2.0, a==3.0: a is overwritten and stays first
C2_Witness ==
    /\ scen = "main"
    /\ pc = "done"
    /\ files[<<"/", "w", "/", "r", ".", "t", "x", "t">>] = <<<<"a", "=", "=", "1", ".", "0">>, <<"b", "=", "=", "2", ".", "0">>, <<"a", "=", "=", "3", ".", "0">>>>
    /\ dependencies = << <<<<"a">>, Some(<<"=", "=", "3", ".", "0">>)>>, <<<<"b">>, Some(<<"=", "=", "2", ".", "0">>)>> >>

\* ---- C3
\* what line n of file F has added to the list of the call reading F
Contribution(F, n) ==
    LET l == strip(files[F][n]) IN
    IF IsBlankOrComment(l) THEN <<>>
    ELSE IF IsDirective(l)
         THEN LET T == {p \in DOMAIN ret : p \in DOMAIN opener /\ opener[p] = <<F, n>>}
              IN  IF T = {} THEN <<>> ELSE ret[CHOOSE p \in T : TRUE]
         ELSE <<l>>

RECURSIVE Flattened(_, _)
Flattened(F, n) == IF n = 0 THEN <<>> ELSE Flattened(F, n - 1) \o Contribution(F, n)

\* C3: a well-formed include directive is replaced in place by the result of
\* the named file, the path taken from the including file's directory: the
\* list of every call is, line by line, the lines before the directive, the
\* included file's result, the lines after it.  r.txt = [a==1.0, -r sub.txt]
\* with sub.txt = [b==2.0, a==3.0] next to it resolves to a==1.0, b==2.0,
\* a==3.0 and the mapping is a: ==3.0, b: ==2.0.
C3_IncludeReplacedInPlace ==
    /\ \A d \in 1..Len(stack) :
          stack[d].requirements =
              Flattened(stack[d].path, IF d = Len(stack) THEN stack[d].pos ELSE stack[d].pos - 1)
    /\ (Resolved /\ abspath(Input(scen)) \in Exists(scen))
          => reqs = Flattened(abspath(Input(scen)), Len(files[abspath(Input(scen))]))
    /\ \A p \in DOMAIN opener :
          p = DirectiveTarget(opener[p][1], strip(files[opener[p][1]][opener[p][2]]))
    /\ (scen = "example" /\ pc = "done")
          => /\ reqs = <<<<"a", "=", "=", "1", ".", "0">>, <<"b", "=", "=", "2", ".", "0">>, <<"a", "=", "=", "3", ".", "0">>>>
             /\ dependencies = << <<<<"a">>, Some(<<"=", "=", "3", ".", "0">>)>>, <<<<"b">>, Some(<<"=", "=", "2", ".", "0">>)>> >>

\* the run over d/r.txt and d/sub.txt, started in another directory, has ended
C3_Witness ==
    /\ scen = "example"
    /\ pc = "done"
    /\ opened = <<<<"/", "w", "/", "d", "/", "r", ".", "t", "x", "t">>, <<"/", "w", "/", "d", "/", "s", "u", "b", ".", "t", "x", "t">>>>
    /\ ret[<<"/", "w", "/", "d", "/", "s", "u", "b", ".", "t", "x", "t">>] = <<<<"b", "=", "=", "2", ".", "0">>, <<"a", "=", "=", "3", ".", "0">>>>

\* ---- C4
MissingInclude(F, l) ==
    /\ ~IsBlankOrComment(l)
    /\ startswith(l, <<"-", "r">>) \/ startswith(l, <<"-", "-", "r", "e", "q", "u", "i", "r", "e", "m", "e", "n", "t">>)
    /\ Len(split(l)) = 2
    /\ DirectiveTarget(F, l) \notin Exists(scen)

\* C4: an include directive naming a file that does not exist contributes no
\* line and aborts nothing: the step leaves the resolver as the removal of
\* the line would, and goes on with the next line of the including file.
C4_MissingIncludeContributesNothing ==
    [][(ReadStep /\ MissingInclude(Top.path, LineRead)) => OnlyAdvanced]_vars

\* a line after a missing include has been processed
C4_Witness ==
    /\ scen = "errors"
    /\ pc = "done"
    /\ files[<<"/", "w", "/", "a">>] = <<<<"-", "r", " ", "z", "z">>, <<" ", "a", "=", "=", "1", " ">>>>
    /\ reqs = <<<<"a", "=", "=", "1">>>>

\* ---- C5
MalformedDirective(l) ==
    /\ ~IsBlankOrComment(l)
    /\ startswith(l, <<"-", "r">>) \/ startswith(l, <<"-", "-", "r", "e", "q", "u", "i", "r", "e", "m", "e", "n", "t">>)
    /\ Len(split(l)) - 1 /= 1

\* C5: a line starting with -r or --requirement that does not have exactly
\* one argument is skipped: nothing is added, no file is opened or marked
\* visited, and the next line of the same file is processed.
C5_MalformedDirectiveSkipped ==
    [][(ReadStep /\ MalformedDirective(LineRead)) => OnlyAdvanced]_vars

\* a line after a directive with two arguments has been processed
C5_Witness ==
    /\ scen = "errors"
    /\ pc = "done"
    /\ files[<<"/", "w", "/", "a">>] = <<<<"-", "r", " ", "b", " ", "c">>, <<" ", "a", "=", "=", "1", " ">>>>
    /\ reqs = <<<<"a", "=", "=", "1">>>>
    /\ parsed_files = {<<"/", "w", "/", "a">>}

\* ---- C6
\* the length of the leading run of identifier characters of l
LeadingRun(l) == SetMax({n \in 0..Len(l) : \A m \in 1..n : l[m] \in IdChars})

\* the end of the package: the leading run and a bracketed extras list right after it
PackageEnd(l) ==
    LET run == LeadingRun(l)
        close == {j \in (run + 3)..Len(l) :
                     /\ l[run + 1] = "["
                     /\ l[j] = "]"
                     /\ \A m \in (run + 2)..(j - 1) : l[m] \in ExtrasChars}
    IN  IF close = {} THEN run ELSE SetMin(close)

\* C6: for a line that begins with an identifier character,
\* parse_requirement_line returns the leading run of identifier characters
\* with a directly following bracketed extras list as the package, and the
\* trimmed rest of the line as the constraint, absent when the rest is empty.
C6_PackageAndConstraint ==
    (pc = "returned" /\ line /= <<>> /\ line[1] \in IdChars)
    => /\ LET rest == strip(SubSeq(line, PackageEnd(line) + 1, Len(line)))
          IN  parsed = <<SubSeq(line, 1, PackageEnd(line)),
                         IF rest = <<>> THEN None ELSE Some(rest)>>
       /\ line = <<"f", "o", "o", "=", "=", "1", ".", "2", ".", "3">> => parsed = <<<<"f", "o", "o">>, Some(<<"=", "=", "1", ".", "2", ".", "3">>)>>
       /\ line = <<"f", "o", "o">> => parsed = <<<<"f", "o", "o">>, None>>
       /\ line = <<"f", "o", "o", "[", "e", "x", "t", "r", "a", "1", ",", "e", "x", "t", "r", "a", "2", "]", ">", "=", "1", ".", "0", ",", "<", "2", ".", "0">>
             => parsed = <<<<"f", "o", "o", "[", "e", "x", "t", "r", "a", "1", ",", "e", "x", "t", "r", "a", "2", "]">>, Some(<<">", "=", "1", ".", "0", ",", "<", "2", ".", "0">>)>>

\* the call on foo[extra1,extra2]>=1.0,<2.0 has returned
C6_Witness ==
    /\ pc = "returned"
    /\ line = <<"f", "o", "o", "[", "e", "x", "t", "r", "a", "1", ",", "e", "x", "t", "r", "a", "2", "]", ">", "=", "1", ".", "0", ",", "<", "2", ".", "0">>
    /\ parsed[1] = <<"f", "o", "o", "[", "e", "x", "t", "r", "a", "1", ",", "e", "x", "t", "r", "a", "2", "]">>

\* ---- C7
\* the lines of the dependencies section of the manifest
SectionLines ==
    LET first == SetMin({n \in 1..Len(toml) : toml[n] = <<"[", "t", "o", "o", "l", ".", "p", "o", "e", "t", "r", "y", ".", "d", "e", "p", "e", "n", "d", "e", "n", "c", "i", "e", "s", "]">>})
        last == SetMin({n \in 1..Len(toml) : toml[n] = <<"[", "b", "u", "i", "l", "d", "-", "s", "y", "s", "t", "e", "m", "]">>})
    IN  SubSeq(toml, first + 1, last - 1)

\* C7: a requirement line that does not begin with an identifier character
\* is returned whole as the package, without constraint, and is one entry
\* of the mapping, written to the manifest as <line> = "*".
C7_UnparseableLinePassedThrough ==
    pc = "done"
    => \A n \in 1..Len(reqs) :
          reqs[n][1] \notin IdChars
          => /\ parse_requirement_line(reqs[n]) = <<reqs[n], None>>
             /\ Cardinality({m \in 1..Len(dependencies) : dependencies[m][1] = reqs[n]}) = 1
             /\ <<reqs[n], None>> \in {dependencies[m] : m \in 1..Len(dependencies)}
             /\ reqs[n] \o <<" ", "=", " ", "\"", "*", "\"">> \in {SectionLines[m] : m \in 1..Len(SectionLines)}

\* the run over a file holding the line =1 has ended
C7_Witness ==
    /\ scen = "main"
    /\ pc = "done"
    /\ \E n \in 1..Len(reqs) : reqs[n] = <<"=", "1">>
    /\ Len(dependencies) = 2

\* ---- C8
\* C8: the manifest holds, after the python line of the dependencies
\* section, one line per entry of the mapping in the mapping's order:
\* <package> = "<constraint>", or <package> = "*" without constraint.
C8_DependencyLinesInMappingOrder ==
    pc = "done"
    => /\ Len(SectionLines) >= Len(dependencies) + 1
       /\ \A n \in 1..Len(dependencies) :
             SectionLines[n + 1] =
                 IF dependencies[n][2] = None
                 THEN dependencies[n][1] \o <<" ", "=", " ", "\"", "*", "\"">>
                 ELSE dependencies[n][1] \o <<" ", "=", " ", "\"">>
                          \o dependencies[n][2][1] \o <<"\"">>

\* a mapping with a constrained entry before an unconstrained one has been written
C8_Witness ==
    /\ pc = "done"
    /\ Len(dependencies) = 2
    /\ dependencies[1][2] /= None
    /\ dependencies[2][2] = None

\* ---- C9
\* l has the form key = "value"
IsKeyValueLine(l) ==
    /\ Len(l) >= 6
    /\ l[Len(l)] = "\""
    /\ \E n \in 2..(Len(l) - 4) : SubSeq(l, n, n + 3) = <<" ", "=", " ", "\"">>

KeyValueLines == SelectSeq(SectionLines, IsKeyValueLine)

\* C9 as stated: the dependencies section holds one key = "value" line per
\* entry of the mapping and no other, so none for the empty mapping.
C9_OneLinePerEntryOnly == pc = "done" => Len(KeyValueLines) = Len(dependencies)

\* C9, amended: the dependencies section holds the fixed line
\* python = "^3.8" and then one key = "value" line per entry of the
\* mapping, and no other key = "value" line.
C9_PythonLineThenOnePerEntry ==
    pc = "done"
    => /\ Len(KeyValueLines) = Len(dependencies) + 1
       /\ KeyValueLines[1] = <<"p", "y", "t", "h", "o", "n", " ", "=", " ", "\"", "^", "3", ".", "8", "\"">>
       /\ \A n \in 1..Len(dependencies) :
             SubSeq(KeyValueLines[n + 1], 1, Len(dependencies[n][1]) + 4)
                 = dependencies[n][1] \o <<" ", "=", " ", "\"">>

\* a mapping of two entries has been written
C9_Witness ==
    /\ pc = "done"
    /\ Len(dependencies) = 2
    /\ Len(KeyValueLines) = 3

\* ---- C10
\* the positions of reqs that come from line n of file p
PositionsOf(p, n) == {m \in 1..Len(reqsrc) : reqsrc[m] = <<p, n>>}

\* C10: a file reached through several include directives contributes its
\* requirement lines once, where the first directive reaching it stands:
\* after the lines before that directive in the including file and before
\* the lines after it; every other directive naming it contributes nothing.
C10_IncludedOnceAtFirstDirective ==
    Resolved
    => /\ Len(reqsrc) = Len(reqs)
       /\ \A p \in parsed_files : \A n \in 1..Len(files[p]) :
             IF IsRequirementLine(strip(files[p][n]))
             THEN /\ Cardinality(PositionsOf(p, n)) = 1
                  /\ \A m \in PositionsOf(p, n) : reqs[m] = strip(files[p][n])
             ELSE PositionsOf(p, n) = {}
       /\ \A m \in 1..Len(reqsrc) : reqsrc[m][1] \in parsed_files
       /\ \A p \in DOMAIN opener : \A m, k \in 1..Len(reqsrc) :
             (reqsrc[m][1] = opener[p][1] /\ reqsrc[k][1] = p)
             => /\ reqsrc[m][2] < opener[p][2] => m < k
                /\ reqsrc[m][2] > opener[p][2] => m > k

\* a includes b and c, both include d: d's line came in through b only
C10_Witness ==
    /\ scen = "diamond"
    /\ pc = "done"
    /\ files[<<"/", "w", "/", "a">>] = <<<<"-", "r", " ", "b">>, <<"-", "r", " ", "c">>>>
    /\ files[<<"/", "w", "/", "b">>] = <<<<"-", "r", " ", "d">>>>
    /\ files[<<"/", "w", "/", "c">>] = <<<<"-", "r", " ", "d">>>>
    /\ opener[<<"/", "w", "/", "d">>] = <<<<"/", "w", "/", "b">>, 1>>
    /\ reqs = <<<<"x">>>>

====
